---- MODULE Spec2Model ----
(***************************************************************************)
(* A model of pinglong (src/pinglong.py): the PingDB storage class (the    *)
(* tracked-endpoint table `destinations` and the probe-result table        *)
(* `pings`), the Prober with its `feasible` property and its `runloop`,    *)
(* and the processes that run beside the loop on the same database file    *)
(* (add_ips, reset_ips, gather_stats, show_stats).                         *)
(*                                                                         *)
(* Conventions.  An IPv4Address object is modelled by its integer value,   *)
(* its string form by the tuple of its dotted groups.  Latencies are       *)
(* whole milliseconds; the latency statistics of gather_stats are kept in  *)
(* hundredths of a millisecond, which is the precision show_stats prints.  *)
(* `clock` is the wall clock in seconds.                                   *)
(***************************************************************************)
EXTENDS Integers, Sequences, FiniteSets, TLC

\* ------------------------------------------------------------------ bounds

\* The probe-result table holds at most MaxLog rows in the model.
MaxLog == 3

\* ------------------------------------------------------- input alphabets

\* Width of one dotted group of an address's string form, and of an address
\* (two groups).
GroupBits == 4

AddrBits == 2 * GroupBits

\* The (address, prefix length, metadata) arguments add_ips is called with:
\* a network with a network and a broadcast address (hosts 5 and 6), and a
\* two-address network that overlaps it (hosts 6 and 7).
AddInputs ==
    { <<5, AddrBits - 2, "m1">>, <<6, AddrBits - 1, "m2">> }

\* The parallelism the Prober is configured with.
Parallels == {1, 2}

\* The round-trip times (ms) a probe that is answered can report.
RTTs == {7}

\* The (address, is_alive, latency) results a caller of add_ping_record
\* appends: of an address of the first network of AddInputs and of an address
\* of no network of it, not alive (max_rtt 0.0) or alive with one of two
\* round-trip times.
RecordInputs ==
    { << a, o[1], o[2] >> : a \in {5, 8},
                            o \in { << FALSE, 0 >>, << TRUE, 3 >>, << TRUE, 7 >> } }

\* The pause lengths (s) the Prober is configured with.
ChunkWaits == {2}

RoundWaits == {3}

\* ---------------------------------------------------------------- helpers

Range(s) == { s[k] : k \in 1..Len(s) }

Min(a, b) == IF a < b THEN a ELSE b

SetMin(S) == CHOOSE x \in S : \A y \in S : x <= y

SetMax(S) == CHOOSE x \in S : \A y \in S : x >= y

\* The elements of a set of integers in ascending order.
SortedSeq(S) ==
    [ k \in 1..Cardinality(S) |->
        CHOOSE x \in S : Cardinality({ y \in S : y < x }) = k - 1 ]

IsPrefix(s, t) == Len(s) <= Len(t) /\ SubSeq(t, 1, Len(s)) = s

\* ------------------------------------------------------ address conversion

\* str(ipaddress.ip_address(n)): the dotted groups of the integer n.
AddrStr(n) == << n \div 2^GroupBits, n % 2^GroupBits >>

\* int(ipaddress.ip_address(s)): the integer of a dotted string.
AddrInt(s) == s[1] * 2^GroupBits + s[2]

\* ipaddress.ip_network(ips, strict=False).hosts(): the host bits of the
\* address are masked off; a full-length prefix is the one address, a prefix
\* one bit shorter both addresses, any other prefix the network without its
\* network and broadcast addresses.  In ascending order.
NetworkHosts(addr, prefixlen) ==
    LET size == 2^(AddrBits - prefixlen)
        net  == (addr \div size) * size
    IN  IF prefixlen = AddrBits THEN << net >>
        ELSE IF prefixlen = AddrBits - 1 THEN << net, net + 1 >>
        ELSE [ k \in 1..(size - 2) |-> net + k ]

\* ------------------------------------------------------------------ state

VARIABLES
    destinations,         \* table destinations: rows [ip, metadata]
    pings,                \* table pings: rows in insertion order
    cli,                  \* the last command another process ran, with its output
    ips,                  \* Prober.ips
    randomize_order,      \* Prober.randomize_order
    num_parallel_pings,   \* Prober.num_parallel_pings
    time_between_chunks,  \* Prober.time_between_chunks
    time_between_rounds,  \* Prober.time_between_rounds
    pc,                   \* where runloop stands
    ips_to_ping,          \* runloop's working copy of the list
    i,                    \* index of the for loop over the chunks
    chunk,                \* the current chunk
    now_utc,              \* the timestamp taken for the current chunk
    hosts,                \* what multiping returned for the current chunk
    h,                    \* how many of hosts have been written
    clock,                \* wall clock, seconds
    inflight,             \* the addresses multiping is probing
    interrupted,          \* SIGINT has been delivered
    slept,                \* the last time.sleep call: [line, secs]
    feas,                 \* the values read from Prober.feasible: none or the last
    scan,                 \* a gather_stats call of another process, query by query
                          \* (base: history, the rows in pings when it began)
    batches,              \* history: the chunks dispatched in this pass
    passbase,             \* history: rows in pings when this pass read the list
    batchbase,            \* history: rows in pings when this chunk was dispatched
    sent_at               \* history: the clock when this chunk was dispatched

db == << destinations, pings >>

config == << randomize_order, num_parallel_pings, time_between_chunks,
            time_between_rounds >>

frame == << pc, ips_to_ping, i, chunk, now_utc, hosts, h >>

env == << clock, inflight, interrupted, slept >>

history == << batches, passbase, batchbase, sent_at >>

reads == << feas, scan >>

vars == << db, cli, ips, config, frame, env, reads, history >>

\* ---------------------------------------------------------------- PingDB

TrackedInts(dest) == { r.ip : r \in dest }

\* INSERT OR REPLACE: the row of an ip that is in the table is overwritten.
InsertOrReplace(dest, int_ip, metadata) ==
    [ integrity_error |-> FALSE,
      table |-> { r \in dest : r.ip # int_ip }
                \cup { [ ip |-> int_ip, metadata |-> metadata ] } ]

\* INSERT INTO destinations VALUES(?, ?) under ip INTEGER PRIMARY KEY: a row
\* whose ip is in the table already raises sqlite3.IntegrityError and the
\* table stays as it is.
InsertDestination(dest, int_ip, metadata) ==
    IF int_ip \in TrackedInts(dest)
    THEN [ integrity_error |-> TRUE, table |-> dest ]
    ELSE [ integrity_error |-> FALSE,
           table |-> dest \cup { [ ip |-> int_ip, metadata |-> metadata ] } ]

\* The loop of add_ips over hosts k.. of the network: each host is inserted in
\* a transaction of its own; an IntegrityError is caught, the address is
\* printed as skipped, and the loop goes on.
RECURSIVE AddHosts(_, _, _, _, _)
AddHosts(dest, skipped, hs, k, metadata) ==
    IF k > Len(hs) THEN [ table |-> dest, skipped |-> skipped ]
    ELSE LET ins == InsertDestination(dest, hs[k], metadata)
         IN  AddHosts(ins.table,
                      IF ins.integrity_error THEN Append(skipped, hs[k]) ELSE skipped,
                      hs, k + 1, metadata)

add_ips(dest, addr, prefixlen, metadata) ==
    AddHosts(dest, <<>>, NetworkHosts(addr, prefixlen), 1, metadata)

\* SELECT ip FROM destinations: the rows of a table keyed by an INTEGER
\* PRIMARY KEY come in key order; each is made an address object.
get_tracked_ips(dest) == SortedSeq(TrackedInts(dest))

\* DELETE FROM destinations.
reset_ips(dest) == {}

\* timestamp.timestamp() * 1000
Millis(timestamp) == timestamp * 1000

\* One row per address: a later result of an address replaces its row.
add_ping_record_latest(log, timestamp, ip, ttl, latency, is_alive) ==
    LET row == [ ts |-> Millis(timestamp), ip |-> AddrInt(ip), ttl |-> ttl,
                 latency |-> latency, is_alive |-> is_alive ]
    IN  IF \E k \in 1..Len(log) : log[k].ip = row.ip
        THEN [ k \in 1..Len(log) |-> IF log[k].ip = row.ip THEN row ELSE log[k] ]
        ELSE Append(log, row)

\* The row inserted twice.
add_ping_record_twice(log, timestamp, ip, ttl, latency, is_alive) ==
    LET row == [ ts |-> Millis(timestamp), ip |-> AddrInt(ip), ttl |-> ttl,
                 latency |-> latency, is_alive |-> is_alive ]
    IN  Append(Append(log, row), row)

\* INSERT INTO pings VALUES(ts, int_ip, ttl, latency, is_alive)
add_ping_record(log, timestamp, ip, ttl, latency, is_alive) ==
    Append(log, [ ts |-> Millis(timestamp), ip |-> AddrInt(ip), ttl |-> ttl,
                  latency |-> latency, is_alive |-> is_alive ])

\* ------------------------------------------------------------ statistics

\* SELECT DISTINCT ip FROM pings: each address once, in order of first row.
RECURSIVE DistinctIps(_, _, _)
DistinctIps(log, k, acc) ==
    IF k > Len(log) THEN acc
    ELSE DistinctIps(log, k + 1,
                     IF log[k].ip \in Range(acc) THEN acc ELSE Append(acc, log[k].ip))

\* SELECT COUNT(ip) FROM pings WHERE ip=?  [AND is_alive=1]
CountRows(log, int_ip, alive_only) ==
    Cardinality({ k \in 1..Len(log) :
                    log[k].ip = int_ip /\ (alive_only => log[k].is_alive) })

\* SELECT latency FROM pings where ip=? AND is_alive=1
RECURSIVE AliveLatencies(_, _, _)
AliveLatencies(log, int_ip, k) ==
    IF k > Len(log) THEN <<>>
    ELSE (IF log[k].ip = int_ip /\ log[k].is_alive THEN << log[k].latency >> ELSE <<>>)
         \o AliveLatencies(log, int_ip, k + 1)

\* sorted(data)
RECURSIVE Sorted(_)
Sorted(data) ==
    IF data = <<>> THEN <<>>
    ELSE LET m == SetMin(Range(data))
             k == CHOOSE j \in 1..Len(data) : data[j] = m
         IN  << m >> \o Sorted(SubSeq(data, 1, k - 1) \o SubSeq(data, k + 1, Len(data)))

\* statistics.median(data), in hundredths.
Median100(data) ==
    LET d == Sorted(data)
        n == Len(d)
    IN  IF n % 2 = 1 THEN 100 * d[(n + 1) \div 2]
        ELSE 50 * (d[n \div 2] + d[n \div 2 + 1])

\* statistics.quantiles(data, n=100, method='inclusive')[94], in hundredths,
\* for two data points or more: j, delta = divmod(95 * (ld - 1), 100) and
\* (data[j] * (100 - delta) + data[j + 1] * delta) / 100.
Percentile95x100(data) ==
    LET d     == Sorted(data)
        m     == Len(d) - 1
        j     == (95 * m) \div 100
        delta == (95 * m) % 100
    IN  d[j + 1] * (100 - delta) + d[j + 2] * delta

\* The summary of one address made of what its three queries returned
\* (lines 103-123).  statistics.quantiles raises StatisticsError for a single
\* data point before Python 3.13 and returns that point from 3.13 on:
\* single_ok tells which interpreter runs.
SummaryOf(int_ip, total_pings, total_alive, latencies, single_ok) ==
    LET base == [ ip |-> int_ip,
                  total_pings |-> total_pings,
                  total_alive |-> total_alive ]
    IN  IF Len(latencies) = 0
        THEN [ error |-> "none",
               row |-> base @@ [ min_rtt |-> -100, max_rtt |-> -100,
                                 median_rtt |-> -100, p95_rtt |-> -100 ] ]
        ELSE IF Len(latencies) = 1 /\ ~single_ok
        THEN [ error |-> "StatisticsError", row |-> base ]
        ELSE [ error |-> "none",
               row |-> base @@ [ min_rtt |-> 100 * SetMin(Range(latencies)),
                                 max_rtt |-> 100 * SetMax(Range(latencies)),
                                 median_rtt |-> Median100(latencies),
                                 p95_rtt |-> IF Len(latencies) = 1
                                             THEN 100 * latencies[1]
                                             ELSE Percentile95x100(latencies) ] ]

\* The summary of one address when no row is written between its queries.
Summary(log, int_ip, single_ok) ==
    SummaryOf(int_ip, CountRows(log, int_ip, FALSE), CountRows(log, int_ip, TRUE),
              AliveLatencies(log, int_ip, 1), single_ok)

\* gather_stats: the summaries in the order of DistinctIps, or the error the
\* first failing address raises.
gather_stats(log, single_ok) ==
    LET int_ips == DistinctIps(log, 1, <<>>)
        sums    == [ k \in 1..Len(int_ips) |-> Summary(log, int_ips[k], single_ok) ]
    IN  IF \E k \in 1..Len(sums) : sums[k].error # "none"
        THEN [ error |-> "StatisticsError", results |-> <<>> ]
        ELSE [ error |-> "none", results |-> [ k \in 1..Len(sums) |-> sums[k].row ] ]

\* One output line: the address of `key` with the values of summary r.
StatsLine(key, r) ==
    << AddrStr(key), r.total_pings, r.min_rtt, r.max_rtt, r.median_rtt,
       r.p95_rtt, r.total_alive >>

\* show_stats from line 81 on, g being what gather_stats gave at line 80.
\* The console loop binds r per address; the outfile loop reuses the r the
\* console loop left (line 91), which is unbound (NameError) when display is
\* false and there is a row to write.
show_stats(g, display, outfile) ==
    LET res == g.results
        n == Len(res)
        console == IF display
                   THEN << "header" >> \o [ k \in 1..n |-> StatsLine(res[k].ip, res[k]) ]
                   ELSE <<>>
    IN  IF g.error # "none"
        THEN [ error |-> g.error, console |-> <<>>, file |-> <<>> ]
        ELSE IF ~outfile
        THEN [ error |-> "none", console |-> console, file |-> <<>> ]
        ELSE IF n = 0
        THEN [ error |-> "none", console |-> console, file |-> << "header" >> ]
        ELSE IF ~display
        THEN [ error |-> "NameError", console |-> console, file |-> << "header" >> ]
        ELSE [ error |-> "none", console |-> console,
               file |-> << "header" >> \o [ k \in 1..n |-> StatsLine(res[k].ip, res[n]) ] ]

\* ---------------------------------------------------- binary floating point

\* Python's float is the IEEE 754 double: a 53-bit significand, results
\* rounded to nearest, ties to even.  A positive double is [bits, exp]: the
\* significand's bits (most significant first, the first one 1) and the power
\* of two its integer value is scaled by; zero is [zero |-> TRUE].
Precision == 53

FloatZero == [ zero |-> TRUE ]

RECURSIVE IntBits(_)
IntBits(n) == IF n = 0 THEN <<>> ELSE IntBits(n \div 2) \o << n % 2 >>

RECURSIVE BitsInt(_)
BitsInt(b) ==
    IF b = <<>> THEN 0 ELSE 2 * BitsInt(SubSeq(b, 1, Len(b) - 1)) + b[Len(b)]

\* a / b in [1, 2) after scaling by 2^k.
RECURSIVE Normalise(_, _, _)
Normalise(a, b, k) ==
    IF a >= 2 * b THEN Normalise(a, 2 * b, k + 1)
    ELSE IF a < b THEN Normalise(2 * a, b, k - 1)
    ELSE << a, b, k >>

\* The next n bits of the binary expansion of r / b, and the remainder left.
RECURSIVE QuotientBits(_, _, _, _)
QuotientBits(r, b, n, acc) ==
    IF n = 0 THEN << acc, r >>
    ELSE LET bit == IF r >= b THEN 1 ELSE 0
         IN  QuotientBits(2 * (r - bit * b), b, n - 1, Append(acc, bit))

\* bits + 1, as a sequence one longer when the carry runs out of the top.
RECURSIVE Increment(_)
Increment(bits) ==
    IF bits = <<>> THEN << 1 >>
    ELSE IF bits[Len(bits)] = 0 THEN SubSeq(bits, 1, Len(bits) - 1) \o << 1 >>
    ELSE Increment(SubSeq(bits, 1, Len(bits) - 1)) \o << 0 >>

\* The double nearest to bits * 2^exp (with half deciding a tie: "above",
\* "tie" or "below" is what was cut off behind bits), ties to even.
RoundNearestEven(bits, exp, cut) ==
    LET up == cut = "above" \/ (cut = "tie" /\ bits[Len(bits)] = 1)
        inc == Increment(bits)
    IN  IF ~up THEN [ zero |-> FALSE, bits |-> bits, exp |-> exp ]
        ELSE IF Len(inc) = Len(bits) THEN [ zero |-> FALSE, bits |-> inc, exp |-> exp ]
        ELSE [ zero |-> FALSE, bits |-> SubSeq(inc, 1, Len(bits)), exp |-> exp + 1 ]

\* a / b of two ints (a >= 0, b > 0): the correctly rounded quotient.
FloatDiv(a, b) ==
    IF a = 0 THEN FloatZero
    ELSE LET nrm == Normalise(a, b, 0)
             q   == QuotientBits(nrm[1], nrm[2], Precision, <<>>)
             cut == IF q[2] > nrm[2] THEN "above"
                    ELSE IF q[2] = nrm[2] THEN "tie" ELSE "below"
         IN  RoundNearestEven(q[1], nrm[3] - (Precision - 1), cut)

\* The bits of bits * c, from the least significant bit up.
RECURSIVE TimesInt(_, _, _, _, _)
TimesInt(bits, k, c, carry, acc) ==
    IF k = 0 THEN IntBits(carry) \o acc
    ELSE LET t == bits[k] * c + carry
         IN  TimesInt(bits, k - 1, c, t \div 2, << t % 2 >> \o acc)

\* x * c of a double and an int c >= 0 (c is exact as a double): the exact
\* product, rounded.
FloatMulInt(x, c) ==
    IF x.zero \/ c = 0 THEN FloatZero
    ELSE LET p    == TimesInt(x.bits, Len(x.bits), c, 0, <<>>)
             n    == Len(p)
             rest == SubSeq(p, Precision + 1, n)
             cut  == IF rest = <<>> \/ rest[1] = 0 THEN "below"
                     ELSE IF \E k \in 2..Len(rest) : rest[k] = 1 THEN "above"
                     ELSE "tie"
         IN  RoundNearestEven(SubSeq(p, 1, Precision), x.exp + (n - Precision), cut)

\* r > x of an int r (below 2^31) and a double x >= 0: Python compares the
\* two exactly, and r > x just when r exceeds the integer part of x.
IntGreaterFloat(r, x) ==
    IF x.zero THEN r > 0
    ELSE LET whole == Len(x.bits) + x.exp
         IN  IF whole > 31 THEN FALSE
             ELSE IF whole <= 0 THEN r > 0
             ELSE r > BitsInt(SubSeq(x.bits, 1, whole))

\* ---------------------------------------------------------------- Prober

\* Prober.feasible: time_between_rounds > len(ips) / parallel * chunk_wait,
\* evaluated left to right in float arithmetic.
feasible ==
    IntGreaterFloat(time_between_rounds,
                    FloatMulInt(FloatDiv(Len(ips), num_parallel_pings),
                                time_between_chunks))

\* random.shuffle(ips_to_ping): any order of the list.
Shuffles(list) ==
    { p \in [ 1..Len(list) -> Range(list) ] : Range(p) = Range(list) }

\* Lines 162-164: the working copy, shuffled when randomize_order is set.
WorkingCopies(list, randomize) ==
    IF randomize THEN Shuffles(list) ELSE { list }

\* The slice with its end one short: ips_to_ping[i:i+N-1].
ChunkShort ==
    SubSeq(ips_to_ping, i + 1, Min(i + num_parallel_pings - 1, Len(ips_to_ping)))

\* The slice taken from the table as it is now, not from the working copy.
ChunkReread ==
    LET now == get_tracked_ips(destinations)
    IN  SubSeq(now, i + 1, Min(i + num_parallel_pings, Len(now)))

\* ips_to_ping[i:i+self.num_parallel_pings]
Chunk ==
    SubSeq(ips_to_ping, i + 1, Min(i + num_parallel_pings, Len(ips_to_ping)))

\* What icmplib reports for one address: no answer within the timeout
\* (is_alive false, max_rtt 0.0) or an answer with its round-trip time.
HostOutcomes(address) ==
    { [ address |-> address, max_rtt |-> 0, is_alive |-> FALSE ] }
    \cup { [ address |-> address, max_rtt |-> r, is_alive |-> TRUE ] : r \in RTTs }

\* icmplib.multiping(addresses, count=1, timeout=1, privileged=False): one
\* Host per address, in the order of the addresses.
Replies(addresses) ==
    { hs \in [ 1..Len(addresses) ->
                 UNION { HostOutcomes(addresses[k]) : k \in 1..Len(addresses) } ] :
        \A k \in 1..Len(addresses) : hs[k].address = addresses[k] }

\* The time of the write instead of the time taken before the chunk.
WriteTimestampLate == clock

\* The timestamp argument of add_ping_record at line 173.
WriteTimestamp == now_utc

\* No gather_stats call is under way.
ScanIdle == [ pc |-> "idle" ]

\* Where runloop has ended: returned to its caller, or left by an exception.
Ended == { "returned", "raised" }

\* The table the Prober is constructed on: one network registered.
InitialTable == add_ips({}, 5, AddrBits - 2, "m1").table

\* Prober.__init__ on an existing database, and runloop entered.
Construct(table) ==
    /\ destinations = table
    /\ pings = <<>>
    /\ cli = [ op |-> "none" ]
    /\ ips = get_tracked_ips(table)
    /\ pc = "read"
    /\ ips_to_ping = <<>>
    /\ i = 0
    /\ chunk = <<>>
    /\ now_utc = 0
    /\ hosts = <<>>
    /\ h = 0
    /\ clock = 0
    /\ inflight = <<>>
    /\ interrupted = FALSE
    /\ slept = [ line |-> 0, secs |-> 0 ]
    /\ feas = <<>>
    /\ scan = ScanIdle
    /\ batches = <<>>
    /\ passbase = 0
    /\ batchbase = 0
    /\ sent_at = 0

Init ==
    /\ randomize_order \in BOOLEAN
    /\ num_parallel_pings \in Parallels
    /\ time_between_chunks \in ChunkWaits
    /\ time_between_rounds \in RoundWaits
    /\ Construct(InitialTable)

\* ------------------------------------------------------------- runloop

\* Lines 161-164: read the tracked list, copy it, shuffle the copy.
ReadTracked ==
    /\ pc = "read"
    /\ ips' = get_tracked_ips(destinations)
    /\ ips_to_ping' \in WorkingCopies(ips', randomize_order)
    /\ i' = 0
    /\ pc' = "for"
    /\ batches' = <<>>
    /\ passbase' = Len(pings)
    /\ UNCHANGED << db, cli, config, chunk, now_utc, hosts, h, env, reads,
                    batchbase, sent_at >>

\* Lines 167-171, up to the probes being sent: the next chunk, its
\* timestamp, and multiping called on it.
Dispatch ==
    /\ pc = "for"
    /\ i < Len(ips_to_ping)
    /\ chunk' = Chunk
    /\ now_utc' = clock
    /\ inflight' = [ k \in 1..Len(chunk') |-> AddrStr(chunk'[k]) ]
    /\ pc' = "ping"
    /\ batches' = Append(batches, chunk')
    /\ batchbase' = Len(pings)
    /\ sent_at' = clock
    /\ UNCHANGED << db, cli, ips, config, ips_to_ping, i, hosts, h, clock,
                    interrupted, slept, reads, passbase >>

\* The pause of line 177 run between two passes.
PassEndRoundWait ==
    /\ pc = "for"
    /\ i >= Len(ips_to_ping)
    /\ slept' = [ line |-> 177, secs |-> time_between_rounds ]
    /\ clock' = clock + time_between_rounds
    /\ pc' = "read"
    /\ UNCHANGED << db, cli, ips, config, ips_to_ping, i, chunk, now_utc, hosts,
                    h, inflight, interrupted, reads, history >>

\* The loop left after one pass: runloop returns.
PassEndReturn ==
    /\ pc = "for"
    /\ i >= Len(ips_to_ping)
    /\ pc' = "returned"
    /\ UNCHANGED << db, cli, ips, config, ips_to_ping, i, chunk, now_utc, hosts,
                    h, env, reads, history >>

\* Line 167 with the range exhausted: `while True` starts the next pass.
PassEnd ==
    /\ pc = "for"
    /\ i >= Len(ips_to_ping)
    /\ pc' = "read"
    /\ UNCHANGED << db, cli, ips, config, ips_to_ping, i, chunk, now_utc, hosts,
                    h, env, reads, history >>

\* multiping returns: every probe was answered or timed out.
Collect ==
    /\ pc = "ping"
    /\ hosts' \in Replies(inflight)
    /\ h' = 0
    /\ inflight' = <<>>
    /\ clock' = clock + 1
    /\ pc' = "write"
    /\ UNCHANGED << db, cli, ips, config, ips_to_ping, i, chunk, now_utc,
                    interrupted, slept, reads, history >>

\* multiping raises instead of returning: with privileged=False every probe
\* opens a datagram ICMP socket, and where the system does not grant that
\* (or the socket cannot be bound) icmplib raises SocketPermissionError or
\* ICMPSocketError out of multiping.  No Host is returned, and nothing in
\* runloop catches the exception.
ProbeFails ==
    /\ pc = "ping"
    /\ inflight' = <<>>
    /\ pc' = "raised"
    /\ UNCHANGED << db, cli, ips, config, ips_to_ping, i, chunk, now_utc, hosts,
                    h, clock, interrupted, slept, reads, history >>

\* The pause entered after the first row of a batch, the other rows left.
WriteRecordPauseEarly ==
    /\ pc = "write"
    /\ h < Len(hosts)
    /\ Len(pings) < MaxLog
    /\ pings' = add_ping_record(pings, WriteTimestamp, hosts[h + 1].address, -1,
                                hosts[h + 1].max_rtt, hosts[h + 1].is_alive)
    /\ h' = h + 1
    /\ pc' = "sleep"
    /\ UNCHANGED << destinations, cli, ips, config, ips_to_ping, i, chunk,
                    now_utc, hosts, env, reads, history >>

\* Lines 172-173: one add_ping_record per host; after the last, line 174.
WriteRecord ==
    /\ pc = "write"
    /\ h < Len(hosts)
    /\ Len(pings) < MaxLog
    /\ pings' = add_ping_record(pings, WriteTimestamp, hosts[h + 1].address, -1,
                                hosts[h + 1].max_rtt, hosts[h + 1].is_alive)
    /\ h' = h + 1
    /\ pc' = IF h' = Len(hosts) THEN "sleep" ELSE "write"
    /\ UNCHANGED << destinations, cli, ips, config, ips_to_ping, i, chunk,
                    now_utc, hosts, env, reads, history >>

\* The failing INSERT swallowed: runloop goes on with the next host.
WriteFailsSkipped ==
    /\ pc = "write"
    /\ h < Len(hosts)
    /\ h' = h + 1
    /\ pc' = IF h' = Len(hosts) THEN "sleep" ELSE "write"
    /\ UNCHANGED << db, cli, ips, config, ips_to_ping, i, chunk, now_utc, hosts,
                    env, reads, history >>

\* The INSERT of add_ping_record raises (the database is locked, the disk
\* full): nothing in runloop catches it.
WriteFails ==
    /\ pc = "write"
    /\ h < Len(hosts)
    /\ pc' = "raised"
    /\ UNCHANGED << db, cli, ips, config, ips_to_ping, i, chunk, now_utc, hosts,
                    h, env, reads, history >>

\* The pause taken between the chunks of a pass only, not after the last.
SleepBetweenChunksOnly ==
    /\ pc = "sleep"
    /\ slept' = IF i + num_parallel_pings < Len(ips_to_ping)
                THEN [ line |-> 174, secs |-> time_between_chunks ] ELSE slept
    /\ clock' = IF i + num_parallel_pings < Len(ips_to_ping)
                THEN clock + time_between_chunks ELSE clock
    /\ i' = i + num_parallel_pings
    /\ pc' = "for"
    /\ UNCHANGED << db, cli, ips, config, ips_to_ping, chunk, now_utc, hosts, h,
                    inflight, interrupted, reads, history >>

\* Line 174: time.sleep(self.time_between_chunks), then the next index.
Sleep ==
    /\ pc = "sleep"
    /\ slept' = [ line |-> 174, secs |-> time_between_chunks ]
    /\ clock' = clock + time_between_chunks
    /\ i' = i + num_parallel_pings
    /\ pc' = "for"
    /\ UNCHANGED << db, cli, ips, config, ips_to_ping, chunk, now_utc, hosts, h,
                    inflight, interrupted, reads, history >>

\* Lines 178-179: KeyboardInterrupt is raised wherever the loop stands, the
\* probes in flight are dropped, the handler passes and runloop returns.
Interrupt ==
    /\ pc \notin Ended
    /\ interrupted' = TRUE
    /\ inflight' = <<>>
    /\ pc' = "returned"
    /\ UNCHANGED << db, cli, ips, config, ips_to_ping, i, chunk, now_utc, hosts,
                    h, clock, slept, reads, history >>

\* The steps runloop takes when nothing fails.
Progress ==
    \/ ReadTracked
    \/ Dispatch
    \/ PassEnd
    \/ Collect
    \/ WriteRecord
    \/ Sleep

Runloop ==
    \/ Progress
    \/ ProbeFails
    \/ WriteFails

\* ------------------------------------------- commands of other processes

AddIps(input) ==
    /\ LET done == add_ips(destinations, input[1], input[2], input[3])
       IN  /\ destinations' = done.table
           /\ cli' = [ op |-> "add_ips", skipped |-> done.skipped ]
    /\ UNCHANGED << pings, ips, config, frame, env, reads, history >>

\* The reset that clears the ping data too.
ResetIpsAndPings ==
    /\ destinations' = reset_ips(destinations)
    /\ pings' = <<>>
    /\ cli' = [ op |-> "reset_ips" ]
    /\ UNCHANGED << ips, config, frame, env, reads, history >>

ResetIps ==
    /\ destinations' = reset_ips(destinations)
    /\ cli' = [ op |-> "reset_ips" ]
    /\ UNCHANGED << pings, ips, config, frame, env, reads, history >>

\* add_ping_record called with a result by the process that owns the log.
AppendRecord(input) ==
    /\ Len(pings) < MaxLog
    /\ pings' = add_ping_record(pings, clock, AddrStr(input[1]), -1, input[3], input[2])
    /\ cli' = [ op |-> "add_ping_record", ip |-> input[1], is_alive |-> input[2],
                latency |-> input[3] ]
    /\ UNCHANGED << destinations, ips, config, frame, env, reads, history >>

GatherStats ==
    /\ \E single_ok \in BOOLEAN :
         cli' = [ op |-> "gather_stats", out |-> gather_stats(pings, single_ok) ]
    /\ UNCHANGED << db, ips, config, frame, env, reads, history >>

ShowStats ==
    /\ \E single_ok \in BOOLEAN :
         LET results == gather_stats(pings, single_ok)
         IN  \E display \in BOOLEAN, outfile \in BOOLEAN :
               cli' = [ op |-> "show_stats", display |-> display, outfile |-> outfile,
                        out |-> show_stats(results, display, outfile) ]
    /\ UNCHANGED << db, ips, config, frame, env, reads, history >>

\* gather_stats of another process, statement by statement.  `with self.con`
\* opens no transaction for a SELECT: each query of lines 97-111 reads the
\* table as it is when it runs, and rows committed by the process that runs
\* runloop between two queries are seen by the later one.

\* Lines 94-98: the addresses of the log.
ScanBegin ==
    /\ scan.pc = "idle"
    /\ LET int_ips == DistinctIps(pings, 1, <<>>)
       IN  scan' = [ pc |-> IF int_ips = <<>> THEN "done" ELSE "count",
                     int_ips |-> int_ips, k |-> 1, results |-> <<>>,
                     total_pings |-> 0, total_alive |-> 0,
                     base |-> Len(pings) ]
    /\ UNCHANGED << db, cli, ips, config, frame, env, feas, history >>

\* Lines 105-106: SELECT COUNT(ip) FROM pings WHERE ip=?
ScanCount ==
    /\ scan.pc = "count"
    /\ scan' = [ scan EXCEPT !.pc = "alive",
                             !.total_pings = CountRows(pings, scan.int_ips[scan.k], FALSE) ]
    /\ UNCHANGED << db, cli, ips, config, frame, env, feas, history >>

\* The alive count taken without its is_alive condition.
ScanAliveUnfiltered ==
    /\ scan.pc = "alive"
    /\ scan' = [ scan EXCEPT !.pc = "latency",
                             !.total_alive = CountRows(pings, scan.int_ips[scan.k], FALSE) ]
    /\ UNCHANGED << db, cli, ips, config, frame, env, feas, history >>

\* Lines 108-109: SELECT COUNT(ip) FROM pings WHERE ip=? AND is_alive=1
ScanAlive ==
    /\ scan.pc = "alive"
    /\ scan' = [ scan EXCEPT !.pc = "latency",
                             !.total_alive = CountRows(pings, scan.int_ips[scan.k], TRUE) ]
    /\ UNCHANGED << db, cli, ips, config, frame, env, feas, history >>

\* Lines 111-123: the alive latencies and their statistics; after the last
\* address, line 125 returns the results.
ScanLatencies ==
    /\ scan.pc = "latency"
    /\ \E single_ok \in BOOLEAN :
         LET sm == SummaryOf(scan.int_ips[scan.k], scan.total_pings, scan.total_alive,
                             AliveLatencies(pings, scan.int_ips[scan.k], 1), single_ok)
         IN  scan' = IF sm.error # "none"
                     THEN [ scan EXCEPT !.pc = "raised" ]
                     ELSE [ scan EXCEPT !.pc = IF scan.k = Len(scan.int_ips)
                                               THEN "done" ELSE "count",
                                        !.k = scan.k + 1,
                                        !.results = Append(scan.results, sm.row) ]
    /\ UNCHANGED << db, cli, ips, config, frame, env, feas, history >>

Scan ==
    \/ ScanBegin
    \/ ScanCount
    \/ ScanAlive
    \/ ScanLatencies

\* A caller reads Prober.feasible.
ReadFeasible ==
    /\ feas' = << feasible >>
    /\ UNCHANGED << db, cli, ips, config, frame, env, scan, history >>

\* ------------------------------------------------------- specifications

\* The Prober's loop, its interrupt, and another process changing the
\* tracked set meanwhile.
Next ==
    \/ Runloop
    \/ Interrupt
    \/ \E input \in AddInputs : AddIps(input)
    \/ ResetIps

Spec == Init /\ [][Next]_vars

\* The process that runs runloop is scheduled: a step of the loop that can
\* be taken is taken (multiping answers within its timeout, sleep ends, an
\* INSERT that does not fail completes).
FairSpec == Spec /\ WF_vars(Progress)

\* The same with the statistics commands run beside the loop, for one
\* configuration of the Prober.
StoreInit ==
    /\ Init
    /\ ~randomize_order
    /\ num_parallel_pings = 2

StoreNext ==
    \/ Runloop
    \/ Interrupt
    \/ AddIps(<<5, AddrBits - 2, "m1">>)
    \/ ResetIps
    \/ GatherStats
    \/ ShowStats

StoreSpec == StoreInit /\ [][StoreNext]_vars

\* The storage class used as a library: results appended by a caller, the
\* tracked set changed, and the statistics read, with no Prober running.
LogInit == StoreInit

LogNext ==
    \/ \E input \in RecordInputs : AppendRecord(input)
    \/ AddIps(<<5, AddrBits - 2, "m1">>)
    \/ ResetIps
    \/ GatherStats
    \/ ShowStats

LogSpec == LogInit /\ [][LogNext]_vars

\* gather_stats of another process running, query by query, beside the loop.
ScanNext ==
    \/ Runloop
    \/ Interrupt
    \/ Scan

ScanSpec == StoreInit /\ [][ScanNext]_vars

\* Prober.feasible read on Probers of several configurations, each
\* constructed on a table of FeasLengths many addresses.
FeasLengths == {0, 1, 15, 100}

FeasParallels == {1, 10, 11}

FeasChunkWaits == {0, 5, 11}

FeasRoundWaits == {15, 40, 50, 60}

FeasTable(len) == { [ ip |-> k, metadata |-> "m1" ] : k \in 1..len }

FeasInit ==
    /\ randomize_order \in BOOLEAN
    /\ num_parallel_pings \in FeasParallels
    /\ time_between_chunks \in FeasChunkWaits
    /\ time_between_rounds \in FeasRoundWaits
    /\ \E len \in FeasLengths : Construct(FeasTable(len))

FeasNext == ReadFeasible

FeasSpec == FeasInit /\ [][FeasNext]_vars

\* ------------------------------------------------------------- properties

\* A pass is under way: the list has been read and runloop has not ended.
InPass == pc \in { "for", "ping", "write", "sleep" }

\* The for loop over the chunks is exhausted: the pass is complete.
PassDone == pc = "for" /\ i >= Len(ips_to_ping)

RECURSIVE Flatten(_)
Flatten(ss) == IF ss = <<>> THEN <<>> ELSE Head(ss) \o Flatten(Tail(ss))

Ceil(a, b) == (a + b - 1) \div b

IsPermutation(s, t) == Len(s) = Len(t) /\ Range(s) = Range(t)

\* C1: in every pass over the list of L endpoints read at its start, with
\* parallelism N, the batches dispatched so far are consecutive slices of
\* the (possibly shuffled) list, each of N members except possibly the last
\* of the pass, which has 1..N; a complete pass has exactly ceil(L/N) batches
\* and every endpoint of the list is in exactly one of them.
C1_BatchPartition ==
    InPass =>
      LET L == Len(ips)
          N == num_parallel_pings
          flat == Flatten(batches)
      IN  /\ N >= 1
          /\ IsPermutation(ips_to_ping, ips)
          /\ ~randomize_order => ips_to_ping = ips
          /\ IsPrefix(flat, ips_to_ping)
          /\ \A k \in 1..Len(batches) :
               /\ Len(batches[k]) \in 1..N
               /\ Len(batches[k]) < N => (k = Len(batches) /\ flat = ips_to_ping)
          /\ Len(batches) <= Ceil(L, N)
          /\ PassDone =>
               /\ Len(batches) = Ceil(L, N)
               /\ flat = ips_to_ping
               /\ \A e \in Range(ips) :
                    Cardinality({ kj \in (1..Len(batches)) \X (1..N) :
                                    /\ kj[2] <= Len(batches[kj[1]])
                                    /\ batches[kj[1]][kj[2]] = e }) = 1

\* A complete pass over three shuffled endpoints, two at a time: a full
\* batch and a last batch of one.
C1_Witness ==
    /\ PassDone
    /\ randomize_order
    /\ num_parallel_pings = 2
    /\ Len(ips) = 3
    /\ ips_to_ping # ips
    /\ Len(batches) = 2
    /\ Len(batches[2]) = 1

\* C2: a batch that runloop completes has appended exactly one row per
\* member, in the members' order, all with the one timestamp taken when the
\* batch was dispatched (before its probes were answered); a complete pass
\* has appended exactly one row per endpoint of the list read at its start.
C2_OneRowPerMember ==
    /\ pc \in { "write", "sleep" } =>
         /\ Len(hosts) = Len(chunk)
         /\ Len(pings) = batchbase + h
         /\ \A k \in 1..h :
              /\ pings[batchbase + k].ip = chunk[k]
              /\ pings[batchbase + k].ts = Millis(sent_at)
              /\ pings[batchbase + k].is_alive = hosts[k].is_alive
              /\ pings[batchbase + k].latency = hosts[k].max_rtt
         /\ sent_at < clock
    /\ pc = "sleep" => h = Len(chunk)
    /\ PassDone =>
         /\ Len(pings) = passbase + Len(ips)
         /\ \A k \in 1..Len(ips_to_ping) : pings[passbase + k].ip = ips_to_ping[k]

\* A complete pass of two batches, whose rows carry two timestamps.
C2_Witness ==
    /\ PassDone
    /\ Len(batches) = 2
    /\ Len(batches[1]) = 2
    /\ pings[passbase + 1].ts = pings[passbase + 2].ts
    /\ pings[passbase + 2].ts < pings[passbase + 3].ts

\* C3: when the interrupt arrives, every result multiping has returned is
\* in the log, and nothing is left in flight.
C3_NoResultLost ==
    pc = "returned" => (h = Len(hosts) /\ inflight = <<>>)

\* Once runloop has ended nothing is probed or appended any more.
EndedStays ==
    pc \in Ended =>
        /\ pc' = pc
        /\ pings' = pings
        /\ inflight' = <<>>
        /\ batches' = batches

\* C4: runloop returns only when interrupted, and an interrupt makes it
\* return normally wherever it stands; once it has ended nothing is probed
\* or appended any more; and as long as it is not interrupted (and no write
\* fails) it keeps coming back to the start of a pass, up to the model's
\* log being full.
C4_RunsUntilInterrupted ==
    /\ [](pc = "returned" <=> interrupted)
    /\ [][EndedStays]_vars
    /\ []<>(pc = "read" \/ pc \in Ended \/ Len(pings) = MaxLog)

\* Interrupted in a second pass, after rows were written.
C4_Witness ==
    /\ pc = "returned"
    /\ interrupted
    /\ passbase > 0
    /\ Len(pings) > passbase

\* A step of the loop from the end of a pass, or from the start of one,
\* takes no time and is no sleep.
NoPauseBetweenPasses ==
    /\ (PassDone /\ pc' \notin Ended /\ pc' # pc) =>
          (pc' = "read" /\ clock' = clock /\ slept' = slept)
    /\ (pc = "read" /\ pc' \notin Ended /\ pc' # pc) =>
          (pc' = "for" /\ clock' = clock /\ slept' = slept)

ListReadAtPassStart ==
    /\ (ips' # ips \/ ips_to_ping' # ips_to_ping) => (pc = "read" /\ pc' = "for")
    /\ (pc = "read" /\ pc' = "for") =>
          /\ Range(ips') = TrackedInts(destinations)
          /\ IsPermutation(ips_to_ping', ips')

\* A dispatched batch is the next slice of the working copy.
BatchFromCopy ==
    (pc = "for" /\ pc' = "ping") =>
        /\ Len(chunk') >= 1
        /\ chunk' = SubSeq(ips_to_ping, i + 1, i + Len(chunk'))
        /\ inflight' = [ k \in 1..Len(chunk') |-> AddrStr(chunk'[k]) ]

\* C6: the list is read only at the start of a pass, as the table is then;
\* every batch is a slice of the working copy made from it, whatever the
\* table has become meanwhile, and a complete pass has a row for every
\* endpoint read at its start, tracked still or not.
C6_ReadOncePerPass ==
    /\ [][ListReadAtPassStart]_vars
    /\ [][BatchFromCopy]_vars
    /\ [](PassDone =>
            { pings[k].ip : k \in (passbase + 1)..Len(pings) } = Range(ips))

\* The table was emptied during a pass whose second batch is written: the
\* row of an endpoint that is no longer tracked is in the log.
C6_Witness ==
    /\ pc = "sleep"
    /\ Len(batches) = 2
    /\ cli.op = "reset_ips"
    /\ destinations = {}
    /\ Len(pings) = passbase + Len(ips)

\* C7: a value read from feasible is true exactly when
\* round_wait > (L / N) * chunk_wait with L / N the exact quotient, that is
\* when round_wait * N > L * chunk_wait; and reading it changes nothing else.
C7_FeasibleExact ==
    feas # <<>> =>
        feas[1] = (time_between_rounds * num_parallel_pings
                     > Len(ips) * time_between_chunks)

\* A step that changes the log appends the one row runloop is writing.
OnlyAppends ==
    /\ IsPrefix(pings, pings')
    /\ pings' # pings =>
          /\ pc = "write"
          /\ h' = h + 1
          /\ Len(pings') = Len(pings) + 1
          /\ pings'[Len(pings')].ip = AddrInt(hosts[h'].address)
          /\ pings'[Len(pings')].is_alive = hosts[h'].is_alive

\* A step of a statistics command.
StatsStep == cli' # cli /\ cli'.op \in { "gather_stats", "show_stats" }

\* C8: the result log is append-only under every interleaving of add_ips,
\* reset_ips, gather_stats, show_stats and runloop: every step leaves the
\* rows present as they are, in place, and only runloop's add_ping_record
\* adds a row; the statistics commands change neither table.
C8_AppendOnly ==
    /\ [][OnlyAppends]_vars
    /\ [][StatsStep => db' = db]_vars

\* The statistics were printed from a log of two rows after the tracked
\* set had been emptied and read empty by the loop.
C8_Witness ==
    /\ Len(pings) = 2
    /\ ips = <<>>
    /\ destinations = {}
    /\ cli.op = "show_stats"
    /\ cli.out.error = "none"
    /\ Len(cli.out.console) > 1

\* A step of reset_ips.
ResetStep == cli'.op = "reset_ips" /\ (cli' # cli \/ destinations' # destinations)

\* reset_ips empties the tracked set and leaves the log, the observed
\* endpoints and their summaries as they are; a row appended leaves the
\* tracked set as it is.
ResetKeepsLog ==
    /\ ResetStep =>
          /\ destinations' = {}
          /\ pings' = pings
          /\ DistinctIps(pings', 1, <<>>) = DistinctIps(pings, 1, <<>>)
          /\ \A single_ok \in BOOLEAN :
               gather_stats(pings', single_ok) = gather_stats(pings, single_ok)
    /\ pings' # pings => destinations' = destinations

\* C9: reset_ips removes every endpoint from the tracked set and leaves the
\* log, the observed endpoints and every summary unchanged; add_ping_record
\* leaves the tracked set unchanged.
C9_ResetKeepsLog == [][ResetKeepsLog]_vars

\* The second pass read two endpoints when the log had two rows; the table
\* was reset after that, and the log has its rows and a third one, of an
\* endpoint that is not tracked.
C9_Witness ==
    /\ cli.op = "reset_ips"
    /\ destinations = {}
    /\ ips = << 5, 6 >>
    /\ passbase = 2
    /\ Len(pings) = 3
    /\ DistinctIps(pings, 1, <<>>) = << 5, 6 >>

\* A step of add_ips.
AddStep == cli'.op = "add_ips" /\ (cli' # cli \/ destinations' # destinations)

\* add_ips keeps every row of the table as it is, inserts the hosts of its
\* network that were not tracked, with its metadata, and reports the others.
AddKeepsTracked ==
    AddStep =>
        /\ destinations \subseteq destinations'
        /\ \E input \in AddInputs :
             LET hs == NetworkHosts(input[1], input[2])
             IN  /\ TrackedInts(destinations') = TrackedInts(destinations) \cup Range(hs)
                 /\ \A r \in destinations' \ destinations : r.metadata = input[3]
                 /\ cli'.skipped = SelectSeq(hs, LAMBDA x : x \in TrackedInts(destinations))
                 /\ Range(hs) \subseteq TrackedInts(destinations)
                       => destinations' = destinations

\* C10: each address is in the tracked set at most once; add_ips leaves the
\* row of an address that is tracked already as it is, metadata included,
\* raises nothing for it and still processes the other addresses of the
\* call, so registering a network again inserts nothing.
C10_NoDuplicates ==
    /\ [](\A r1, r2 \in destinations : r1.ip = r2.ip => r1 = r2)
    /\ [][AddKeepsTracked]_vars

\* The second network was registered over the first (6 kept its metadata, 7
\* was inserted), and then registered again: both its hosts were skipped.
C10_Witness ==
    /\ cli.op = "add_ips"
    /\ cli.skipped = << 6, 7 >>
    /\ destinations = { [ ip |-> 5, metadata |-> "m1" ],
                        [ ip |-> 6, metadata |-> "m1" ],
                        [ ip |-> 7, metadata |-> "m2" ] }

\* ----------------------------------------------- properties of the summaries

\* A step in which another process ran gather_stats on the log as it is.
GatherStep == cli' # cli /\ cli'.op = "gather_stats"

\* The addresses that occur in the log.
Observed(log) == { log[k].ip : k \in 1..Len(log) }

\* The addresses of the log that have no row with is_alive set.
NeverAlive(log) ==
    { a \in Observed(log) : \A k \in 1..Len(log) : log[k].ip = a => ~log[k].is_alive }

\* The result g has exactly one summary of address a, and it is the one of
\* an address never seen alive with n rows.
HasSentinelSummary(g, a, n) ==
    /\ g.error = "none"
    /\ Cardinality({ k \in 1..Len(g.results) : g.results[k].ip = a }) = 1
    /\ \A k \in 1..Len(g.results) :
         g.results[k].ip = a =>
            /\ g.results[k].total_pings = n
            /\ g.results[k].total_alive = 0
            /\ g.results[k].min_rtt = -100
            /\ g.results[k].max_rtt = -100
            /\ g.results[k].median_rtt = -100
            /\ g.results[k].p95_rtt = -100

NeverAliveSummarised ==
    GatherStep =>
        \A a \in NeverAlive(pings) :
            HasSentinelSummary(cli'.out, a, CountRows(pings, a, FALSE))

\* C11: gather_stats raises nothing and returns, for every address of the
\* log with no alive row, a summary whose four latency statistics are -1,
\* whose total_alive is 0 and whose total_pings is the number of its rows.
C11_NeverAliveSentinel == [][NeverAliveSummarised]_vars

\* The result g has exactly one summary of address a; it is ordered
\* min <= median <= max with the 95th percentile at or above the median, and
\* its extremes are those of the alive latencies lat.
HasOrderedSummary(g, a, lat) ==
    /\ g.error = "none"
    /\ Cardinality({ k \in 1..Len(g.results) : g.results[k].ip = a }) = 1
    /\ \A k \in 1..Len(g.results) :
         g.results[k].ip = a =>
            /\ g.results[k].min_rtt <= g.results[k].median_rtt
            /\ g.results[k].median_rtt <= g.results[k].max_rtt
            /\ g.results[k].p95_rtt >= g.results[k].median_rtt
            /\ g.results[k].p95_rtt <= g.results[k].max_rtt
            /\ g.results[k].min_rtt = 100 * SetMin(Range(lat))
            /\ g.results[k].max_rtt = 100 * SetMax(Range(lat))

AliveSummarised ==
    GatherStep =>
        \A a \in Observed(pings) \ NeverAlive(pings) :
            HasOrderedSummary(cli'.out, a, AliveLatencies(pings, a, 1))

\* C12: gather_stats does not fail and returns, for every address with one
\* alive latency or more, a summary computed over its alive rows only with
\* min_rtt <= median_rtt <= max_rtt and 95th_rtt >= median_rtt.
C12_OrderedStatistics == [][AliveSummarised]_vars

\* A step in which another process ran show_stats on the log as it is.
ShowStep == cli' # cli /\ cli'.op = "show_stats"

\* The header and one line per summary, each line with the values of the
\* summary of its own address.
OwnLines(res) ==
    << "header" >> \o [ k \in 1..Len(res) |-> StatsLine(res[k].ip, res[k]) ]

\* Whenever the statistics themselves can be computed, show_stats raises
\* nothing and each output it was asked for is OwnLines of the summaries.
OwnRowsShown ==
    (ShowStep /\ cli'.out.error # "StatisticsError") =>
        LET res == gather_stats(pings, TRUE).results
        IN  /\ cli'.out.error = "none"
            /\ cli'.out.console = IF cli'.display THEN OwnLines(res) ELSE <<>>
            /\ cli'.out.file = IF cli'.outfile THEN OwnLines(res) ELSE <<>>
            /\ Len(res) = Cardinality(Observed(pings))

\* C13: show_stats emits the header and exactly one row per observed
\* address, each row with that address's own summary in the order IP,
\* total_pings, min_rtt, max_rtt, median_rtt, 95th_rtt, total_alive, on the
\* console and in the outfile, for every combination of display and outfile
\* and for logs of more than one address.
C13_OwnRowPerEndpoint == [][OwnRowsShown]_vars

\* ------------------------------------------------ properties of the failures

\* multiping ends by returning one Host per member of the batch, alive or
\* not, and the loop goes on to write them; only the interrupt ends runloop
\* while probes are in flight.
ProbesAnswered ==
    (pc = "ping" /\ pc' # pc) =>
        \/ /\ pc' = "write"
           /\ Len(hosts') = Len(chunk)
           /\ \A k \in 1..Len(chunk) : hosts'[k].address = AddrStr(chunk[k])
        \/ /\ pc' = "returned"
           /\ interrupted'

\* C14: a probe that fails at the transport layer gives its batch member a
\* result with is_alive false and never ends runloop with an exception: the
\* batch's results are returned and the loop goes on to write them.
C14_TransportFailureNotAlive == [][ProbesAnswered]_vars

\* A failing append leaves the log as it is and ends runloop by the
\* exception; after that nothing is appended, probed or attempted again.
WriteFailureFinal ==
    /\ (pc = "write" /\ pc' = "raised") =>
          /\ pings' = pings
          /\ h' = h
          /\ ~interrupted'
    /\ (pc = "write" /\ pc' \in { "write", "sleep" } /\ h' # h) =>
          /\ h' = h + 1
          /\ pings' = Append(pings, pings'[Len(pings')])
    /\ pc = "raised" =>
          /\ pc' = "raised"
          /\ pings' = pings
          /\ h' = h
          /\ inflight' = <<>>
          /\ batches' = batches

\* C15: a failing add_ping_record propagates out of runloop and is not
\* retried: the record is attempted once, the rows appended before are in
\* the log unchanged, and no later row of the batch or of a later batch is
\* appended; no record is passed over without being appended.
C15_WriteFailurePropagates ==
    /\ [][WriteFailureFinal]_vars
    /\ [](pc \in { "write", "sleep" } => Len(pings) = batchbase + h)
    /\ []((pc = "raised" /\ h < Len(hosts)) =>
            /\ Len(pings) = batchbase + h
            /\ \A k \in 1..h : pings[batchbase + k].ip = chunk[k])

\* The second row of a batch of the second pass failed: the first row of
\* the batch and the rows of the first pass are in the log.
C15_Witness ==
    /\ pc = "raised"
    /\ ~interrupted
    /\ Len(hosts) = 2
    /\ h = 1
    /\ batchbase = 2
    /\ Len(pings) = 3

\* --------------------------------------- properties of the keys and counts

\* The addresses a result of gather_stats has summaries of.
Keys(g) == { g.results[k].ip : k \in 1..Len(g.results) }

\* gather_stats returns a result with one summary per address of the log
\* and no other, whatever the tracked set is.
KeysAreObserved ==
    GatherStep =>
        /\ cli'.out.error = "none"
        /\ Keys(cli'.out) = Observed(pings)
        /\ Len(cli'.out.results) = Cardinality(Observed(pings))

\* C16: the key set of the result of gather_stats is exactly the set of
\* addresses that occur in the log, independent of the tracked set: an
\* address with rows has a summary, tracked or not, and a tracked address
\* without rows has none.
C16_KeysAreObserved == [][KeysAreObserved]_vars

\* A step in which add_ping_record was called with the result in cli'.
AppendStep == pings' # pings /\ cli'.op = "add_ping_record"

\* What the queries of gather_stats return for every address c before and
\* after the append of (a, b, x): the count of a is one more, the alive
\* count of a is one more when b, x is added once to the alive latencies of
\* a when b, and nothing else differs.
AppendReflected ==
    AppendStep =>
        LET a == cli'.ip
            b == cli'.is_alive
            x == cli'.latency
        IN  \A c \in Observed(pings') \cup { r[1] : r \in RecordInputs } :
              /\ CountRows(pings', c, FALSE)
                   = CountRows(pings, c, FALSE) + (IF c = a THEN 1 ELSE 0)
              /\ CountRows(pings', c, TRUE)
                   = CountRows(pings, c, TRUE) + (IF c = a /\ b THEN 1 ELSE 0)
              /\ AliveLatencies(pings', c, 1)
                   = IF c = a /\ b THEN Append(AliveLatencies(pings, c, 1), x)
                                   ELSE AliveLatencies(pings, c, 1)

\* C17: appending one result for address a with alive flag b and latency x
\* raises a's total_pings by exactly 1, its total_alive by 1 when b and by 0
\* otherwise, adds one occurrence of x to a's alive latencies when b and none
\* otherwise, and leaves the counts and latencies of other addresses alone.
C17_AppendReadBack == [][AppendReflected]_vars

\* An alive result of 7 ms was appended for 5, which had an alive latency of
\* 3 ms, beside a row of 8.
C17_Witness ==
    /\ cli.op = "add_ping_record"
    /\ cli.ip = 5
    /\ cli.is_alive
    /\ cli.latency = 7
    /\ AliveLatencies(pings, 5, 1) = << 3, 7 >>
    /\ CountRows(pings, 8, FALSE) = 1

\* ------------------------------------------------ properties of the pacing

\* A step that dispatches a batch.
DispatchStep == pc = "for" /\ pc' = "ping"

\* A batch is dispatched when nothing is in flight and, if a batch went
\* before it (in this pass or an earlier one), after every result of that
\* batch was collected and written and the pause after it has ended; the
\* pause is entered only from the write of the batch's last result.
OneBatchAtATime ==
    /\ DispatchStep =>
          /\ inflight = <<>>
          /\ hosts # <<>> =>
                /\ Len(hosts) = Len(chunk)
                /\ h = Len(hosts)
                /\ Len(pings) = batchbase + Len(chunk)
                /\ slept = [ line |-> 174, secs |-> time_between_chunks ]
                /\ clock >= sent_at + 1 + time_between_chunks
    /\ (pc # "sleep" /\ pc' = "sleep") =>
          /\ pc = "write"
          /\ h' = Len(hosts)
          /\ Len(pings') = batchbase + Len(chunk)
    /\ (pc = "sleep" /\ pc' \notin Ended /\ pc' # pc) =>
          /\ pc' = "for"
          /\ clock' = clock + time_between_chunks

\* C18: batches are strictly sequential: probes of at most one batch are in
\* flight, while they are nothing is written or slept, and the next batch
\* (of this pass or the next) is dispatched only after the results of the
\* batch before were collected, all written, and the chunk_wait pause after
\* them has ended; the pause begins only when the batch is written.
C18_BatchesSequential ==
    /\ [][OneBatchAtATime]_vars
    /\ [](inflight # <<>> =>
            /\ pc = "ping"
            /\ inflight = [ k \in 1..Len(chunk) |-> AddrStr(chunk[k]) ])
    /\ [](pc = "sleep" => (h = Len(hosts) /\ Len(pings) = batchbase + Len(chunk)))

\* The second batch of a pass is in flight after the two rows of the first
\* were written and its pause was taken.
C18_Witness ==
    /\ pc = "ping"
    /\ Len(batches) = 2
    /\ Len(inflight) = 1
    /\ Len(pings) = passbase + 2
    /\ batchbase = passbase + 2
    /\ slept.line = 174

\* ------------------------- properties of the summaries beside a running loop

\* The summary r is consistent in itself.
Consistent(r) ==
    /\ r.total_alive <= r.total_pings
    /\ (r.total_alive = 0) <=> (r.min_rtt = -100 /\ r.max_rtt = -100 /\
                                r.median_rtt = -100 /\ r.p95_rtt = -100)
    /\ (r.total_alive = 0) <=> (r.min_rtt = -100 \/ r.max_rtt = -100 \/
                                r.median_rtt = -100 \/ r.p95_rtt = -100)

\* C19: every summary gather_stats returns is consistent in itself, also
\* when rows are appended by runloop between its queries: total_alive is at
\* most total_pings, and the four latency statistics are -1 exactly when
\* total_alive is 0.
C19_SummariesConsistent ==
    scan.pc = "done" => \A k \in 1..Len(scan.results) : Consistent(scan.results[k])

\* C19, amended: every summary gather_stats returns is consistent in itself
\* when no row was appended between its queries, and the result is then the
\* summaries of the log as it is; with rows appended between the queries a
\* summary need not be consistent, and each of its counts is the count of
\* rows of its address the log had at the time of its query: at most the
\* count of the rows the log has now.
C19_ConsistentWhenQuiet ==
    scan.pc = "done" =>
        /\ Len(pings) = scan.base =>
              /\ \A k \in 1..Len(scan.results) : Consistent(scan.results[k])
              /\ scan.results = gather_stats(pings, TRUE).results
        /\ \A k \in 1..Len(scan.results) :
              /\ scan.results[k].ip = scan.int_ips[k]
              /\ scan.results[k].total_pings
                    <= CountRows(pings, scan.int_ips[k], FALSE)
              /\ scan.results[k].total_alive
                    <= CountRows(pings, scan.int_ips[k], TRUE)
              /\ scan.results[k].total_pings >= 1

\* gather_stats returned the summaries of two addresses, one with two alive
\* latencies, from a log of three rows that did not change meanwhile.
C19_Witness ==
    /\ scan.pc = "done"
    /\ Len(pings) = 3
    /\ scan.base = 3
    /\ Len(scan.results) = 2
    /\ scan.results[1].total_alive = 2

\* Time passes in two places only: while multiping waits for the answers,
\* and in the pause of line 174, which follows the last write of a batch,
\* lasts chunk_wait and moves the loop to the next index.
PauseAfterEachBatch ==
    /\ clock' # clock =>
          \/ pc = "ping" /\ pc' = "write" /\ clock' = clock + 1 /\ slept' = slept
          \/ /\ pc = "sleep"
             /\ pc' = "for"
             /\ clock' = clock + time_between_chunks
             /\ slept' = [ line |-> 174, secs |-> time_between_chunks ]
    /\ (pc = "sleep" /\ pc' \notin Ended /\ pc' # pc) =>
          /\ pc' = "for"
          /\ clock' = clock + time_between_chunks
          /\ i' = i + num_parallel_pings
    /\ i' # i => \/ pc = "sleep" /\ pc' = "for"
                 \/ pc = "read" /\ pc' = "for" /\ i' = 0
    /\ (DispatchStep /\ hosts # <<>>) =>
          clock = sent_at + 1 + time_between_chunks

\* A pass over an empty list goes straight back to reading the list: no
\* probe, no row, no pause, no time.
EmptyPassIdle ==
    (pc = "for" /\ ips_to_ping = <<>> /\ pc' \notin Ended /\ pc' # pc) =>
        /\ pc' = "read"
        /\ clock' = clock
        /\ slept' = slept
        /\ pings' = pings
        /\ inflight' = <<>>
        /\ batches' = <<>>

====
